---- MODULE Spec2Model ----
(***************************************************************************)
(* A model of the P9813 RGB LED controller driver (src/src/lib.rs).        *)
(*                                                                         *)
(* The driver encodes a colour triple into a 4-byte device frame           *)
(* (color_to_array) and set_colors hands a start frame, one device frame   *)
(* per triple and an end frame to an SPI device, one spi.write per frame.  *)
(*                                                                         *)
(* Three specifications share the definitions below:                       *)
(*   EncSpec   color_to_array applied to colour triples of the byte range; *)
(*   Spec      one controller from new to release on a bus that another    *)
(*             device shares, every spi.write free to fail;                *)
(*   CallsSpec a constructed controller and the record of its calls.       *)
(***************************************************************************)
EXTENDS Integers, Sequences, FiniteSets

VARIABLES
  rgb,      \* EncSpec: the triple <<r, g, b>> color_to_array is applied to
  frame,    \* EncSpec: the array color_to_array returned, <<>> before the call
  ctrl,     \* "Unconstructed" | "Holding" | "Released": the P9813 value
  spi,      \* the SPI device the controller's field `spi` holds
  given,    \* the SPI device the caller passed to new
  returned, \* the SPI device release handed back
  pc,       \* position inside set_colors: "idle" | "start" | "loop"
  op,       \* the public method the caller entered: "set_color" | "set_colors"
  input,    \* the caller's argument: <<r, g, b>> or a sequence of triples
  colors,   \* the argument of the running set_colors
  idx,      \* the iterator position of the for loop (next triple, from 1)
  ret,      \* the value the last finished call returned
  bus,      \* bus transactions since the running (or last) call began
  calls     \* CallsSpec: the finished calls, oldest first

vars == <<rgb, frame, ctrl, spi, given, returned, pc, op, input, colors, idx,
          ret, bus, calls>>

encVars  == <<rgb, frame>>
ctrlVars == <<ctrl, spi, given, returned>>
callVars == <<pc, op, input, colors, idx, ret, bus, calls>>

-----------------------------------------------------------------------------
(* Bounds of the model.                                                    *)

MaxChain == 3

MaxForeign == 1

MaxCalls == 3

MaxRepeatChain == 2

-----------------------------------------------------------------------------
(* u8 arithmetic, as Rust computes it.                                     *)

Byte == 0 .. 255

\* !x on a u8
Not8(x) == 255 - x

\* x >> n on a u8
Shr8(x, n) == x \div (2 ^ n)

\* x << n on a u8: the bits shifted past bit 7 are lost
Shl8(x, n) == (x * (2 ^ n)) % 256

\* a | b
RECURSIVE BitOr(_, _)
BitOr(a, b) ==
  IF a = 0 THEN b
  ELSE IF b = 0 THEN a
  ELSE (IF a % 2 = 1 \/ b % 2 = 1 THEN 1 ELSE 0) + 2 * BitOr(a \div 2, b \div 2)

FLAG_BITS == 192

FRAME_START == <<0, 0, 0, 0>>

FRAME_END == <<0, 0, 0, 0>>

\* mutant: the two flag bits are left out of the prefix
color_to_array_noflag(r, g, b) ==
  LET b_bit == Shr8(Not8(b), 6)
      g_bit == Shr8(Not8(g), 6)
      r_bit == Shr8(Not8(r), 6)
      prefix == BitOr(BitOr(Shl8(b_bit, 4), Shl8(g_bit, 2)), r_bit)
  IN  <<prefix, b, g, r>>

\* mutant: the channels' top bits are packed without the complement
color_to_array_plain(r, g, b) ==
  LET b_bit == Shr8(b, 6)
      g_bit == Shr8(g, 6)
      r_bit == Shr8(r, 6)
      prefix == BitOr(BitOr(BitOr(FLAG_BITS, Shl8(b_bit, 4)), Shl8(g_bit, 2)), r_bit)
  IN  <<prefix, b, g, r>>

\* mutant: the channels follow the prefix in the caller's order r, g, b
color_to_array_rgb(r, g, b) ==
  LET b_bit == Shr8(Not8(b), 6)
      g_bit == Shr8(Not8(g), 6)
      r_bit == Shr8(Not8(r), 6)
      prefix == BitOr(BitOr(BitOr(FLAG_BITS, Shl8(b_bit, 4)), Shl8(g_bit, 2)), r_bit)
  IN  <<prefix, r, g, b>>

color_to_array(r, g, b) ==
  LET b_bit == Shr8(Not8(b), 6)
      g_bit == Shr8(Not8(g), 6)
      r_bit == Shr8(Not8(r), 6)
      prefix == BitOr(BitOr(BitOr(FLAG_BITS, Shl8(b_bit, 4)), Shl8(g_bit, 2)), r_bit)
  IN  <<prefix, b, g, r>>

-----------------------------------------------------------------------------
(* EncSpec: color_to_array on its own.  Two channels range over the whole   *)
(* byte range while the third ranges over values on both sides of every    *)
(* change of the two most significant bits and the doc tests' values; each *)
(* channel takes the part of the third in turn.                            *)

Sample == {0, 20, 50, 63, 64, 127, 128, 191, 192, 200, 255}

NoSpi == "none"

IdleCall ==
  /\ pc = "idle" /\ op = "none" /\ input = <<>> /\ colors = <<>>
  /\ idx = 0 /\ ret = "none" /\ bus = <<>> /\ calls = <<>>

EncInit ==
  /\ \E x \in Byte, y \in Byte, z \in Sample :
       rgb \in {<<x, y, z>>, <<x, z, y>>, <<z, x, y>>}
  /\ frame = <<>>
  /\ ctrl = "Unconstructed" /\ spi = NoSpi /\ given = NoSpi /\ returned = NoSpi
  /\ IdleCall

Encode ==
  /\ frame = <<>>
  /\ frame' = color_to_array(rgb[1], rgb[2], rgb[3])
  /\ UNCHANGED <<rgb, ctrlVars, callVars>>

EncNext == Encode

EncSpec == EncInit /\ [][EncNext]_vars

\* C2: for all r, g, b the first byte of the device frame has bits 7-6 equal
\* to 11, bits 5-4 the complement of blue's two most significant bits, bits
\* 3-2 the complement of green's and bits 1-0 the complement of red's, as an
\* 8-bit value; (0,255,200) gives 0b11000011 and (255,50,20) gives 0b11111100.
C2_PrefixBits ==
  frame # <<>> =>
    LET prefix == frame[1]
        r == rgb[1]
        g == rgb[2]
        b == rgb[3]
    IN  /\ prefix \in Byte
        /\ prefix \div 64 = 3
        /\ (prefix \div 16) % 4 = 3 - (b \div 64)
        /\ (prefix \div 4) % 4 = 3 - (g \div 64)
        /\ prefix % 4 = 3 - (r \div 64)
        /\ (rgb = <<0, 255, 200>> => prefix = 195)
        /\ (rgb = <<255, 50, 20>> => prefix = 252)

C2_Witness == rgb = <<255, 50, 20>> /\ frame # <<>> /\ frame[1] = 252

\* C3: for all r, g, b bytes 1, 2 and 3 of the device frame are b, g, r in
\* that order, unmodified, whatever the other channels are.
C3_ChannelBytes ==
  frame # <<>> =>
    /\ Len(frame) = 4
    /\ frame[2] = rgb[3]
    /\ frame[3] = rgb[2]
    /\ frame[4] = rgb[1]

C3_Witness == rgb = <<0, 255, 200>> /\ frame = <<195, 200, 255, 0>>

-----------------------------------------------------------------------------
(* The controller.  set_colors is followed from one spi.write to the next: *)
(* each spi.write is a call into the SPI device that may fail, and (doc    *)
(* tests, lines 92-110) a bus transaction of its own, so the bus is free   *)
(* for another device between two of them.                                 *)

Devices == {"spi0", "spi1"}

Errors == {"E1", "E2"}

Results == {"Ok"} \cup Errors

Palette == {<<0, 0, 0>>, <<0, 255, 200>>, <<255, 50, 20>>}

Chains == UNION {[1 .. n -> Palette] : n \in 0 .. MaxChain}

\* the bus transactions of the controller's own SPI device, in order
Own(log) == SelectSeq(log, LAMBDA e : e.by = "p9813")

Foreign(log) == SelectSeq(log, LAMBDA e : e.by = "other")

\* mutant: the constructor already sends a start frame
new_writes(t) ==
  /\ ctrl = "Unconstructed"
  /\ ctrl' = "Holding"
  /\ spi' = t
  /\ given' = t
  /\ bus' = Append(bus, [by |-> "p9813", bytes |-> FRAME_START, res |-> "Ok"])
  /\ UNCHANGED <<returned, pc, op, input, colors, idx, ret, encVars>>

\* P9813::new(spi)
new(t) ==
  /\ ctrl = "Unconstructed"
  /\ ctrl' = "Holding"
  /\ spi' = t
  /\ given' = t
  /\ UNCHANGED <<returned, pc, op, input, colors, idx, ret, bus, encVars>>

\* P9813::release(self): takes the controller by value, so no call is running
release ==
  /\ ctrl = "Holding"
  /\ pc = "idle"
  /\ ctrl' = "Released"
  /\ returned' = spi
  /\ spi' = NoSpi
  /\ UNCHANGED <<given, pc, op, input, colors, idx, ret, bus, encVars>>

\* mutant: the start frame is sent only by the controller's first call
set_colors_once(cs) ==
  /\ ctrl = "Holding"
  /\ pc = "idle"
  /\ pc' = IF calls = <<>> THEN "start" ELSE "loop"
  /\ colors' = cs
  /\ idx' = 1
  /\ ret' = "none"
  /\ bus' = <<>>
  /\ UNCHANGED <<ctrlVars, encVars>>

\* entry of P9813::set_colors(&mut self, colors)
set_colors(cs) ==
  /\ ctrl = "Holding"
  /\ pc = "idle"
  /\ pc' = "start"
  /\ colors' = cs
  /\ idx' = 1
  /\ ret' = "none"
  /\ bus' = <<>>
  /\ UNCHANGED <<ctrlVars, encVars>>

\* mutant: the channels are passed on in the frame's order b, g, r
set_color_bgr(r, g, b) == set_colors(<<<<b, g, r>>>>)

\* P9813::set_color(&mut self, r, g, b)
set_color(r, g, b) == set_colors(<<<<r, g, b>>>>)

\* one spi.write(bytes) and what the SPI device answered
Transmit(bytes, res) ==
  bus' = Append(bus, [by |-> "p9813", bytes |-> bytes, res |-> res])

\* set_colors returns res to its caller
Return(res) ==
  /\ pc' = "idle"
  /\ ret' = res

\* self.spi.write(&FRAME_START)?
WriteStart ==
  /\ pc = "start"
  /\ \E res \in Results :
       /\ Transmit(FRAME_START, res)
       /\ IF res = "Ok" THEN pc' = "loop" /\ ret' = ret ELSE Return(res)
  /\ UNCHANGED <<op, input, colors, idx, ctrlVars, encVars>>

\* mutant: the loop goes on to the next triple when a write failed
WriteFrame_ignore ==
  /\ pc = "loop"
  /\ idx <= Len(colors)
  /\ \E res \in Results :
       /\ Transmit(color_to_array(colors[idx][1], colors[idx][2], colors[idx][3]), res)
       /\ pc' = "loop" /\ ret' = ret /\ idx' = idx + 1
  /\ UNCHANGED <<op, input, colors, ctrlVars, encVars>>

\* mutant: the triples are sent last to first
WriteFrame_rev ==
  /\ pc = "loop"
  /\ idx <= Len(colors)
  /\ \E res \in Results :
       LET c == colors[Len(colors) + 1 - idx] IN
       /\ Transmit(color_to_array(c[1], c[2], c[3]), res)
       /\ IF res = "Ok"
            THEN pc' = "loop" /\ ret' = ret /\ idx' = idx + 1
            ELSE Return(res) /\ idx' = idx
  /\ UNCHANGED <<op, input, colors, ctrlVars, encVars>>

\* mutant: the whole remaining transaction goes out in one write
WriteFrame_one ==
  /\ pc = "loop"
  /\ idx <= Len(colors)
  /\ \E res \in Results :
       LET c == colors[idx] IN
       /\ Transmit(color_to_array(c[1], c[2], c[3])
                     \o (IF idx = Len(colors) THEN FRAME_END ELSE <<>>), res)
       /\ IF res = "Ok"
            THEN /\ idx' = idx + 1
                 /\ IF idx = Len(colors) THEN Return(res)
                                         ELSE pc' = "loop" /\ ret' = ret
            ELSE Return(res) /\ idx' = idx
  /\ UNCHANGED <<op, input, colors, ctrlVars, encVars>>

\* for &(r, g, b) in colors.as_ref().iter() { self.spi.write(&color_to_array(r, g, b))?; }
WriteFrame ==
  /\ pc = "loop"
  /\ idx <= Len(colors)
  /\ \E res \in Results :
       LET c == colors[idx] IN
       /\ Transmit(color_to_array(c[1], c[2], c[3]), res)
       /\ IF res = "Ok"
            THEN pc' = "loop" /\ ret' = ret /\ idx' = idx + 1
            ELSE Return(res) /\ idx' = idx
  /\ UNCHANGED <<op, input, colors, ctrlVars, encVars>>

\* mutant: an empty colour sequence is answered without an end frame
WriteEnd_nonempty ==
  /\ pc = "loop"
  /\ idx > Len(colors)
  /\ IF colors = <<>>
       THEN bus' = bus /\ Return("Ok")
       ELSE \E res \in Results : Transmit(FRAME_END, res) /\ Return(res)
  /\ UNCHANGED <<op, input, colors, idx, ctrlVars, encVars>>

\* self.spi.write(&FRAME_END)
WriteEnd ==
  /\ pc = "loop"
  /\ idx > Len(colors)
  /\ \E res \in Results :
       /\ Transmit(FRAME_END, res)
       /\ Return(res)
  /\ UNCHANGED <<op, input, colors, idx, ctrlVars, encVars>>

\* another device of the same bus runs a transaction of its own
OtherBusUser ==
  /\ Len(Foreign(bus)) < MaxForeign
  /\ bus' = Append(bus, [by |-> "other", bytes |-> <<170>>, res |-> "Ok"])
  /\ UNCHANGED <<pc, op, input, colors, idx, ret, ctrlVars, encVars>>

\* the caller calls set_colors(cs)
CallSetColors(cs) ==
  /\ op' = "set_colors"
  /\ input' = cs
  /\ set_colors(cs)

\* the caller calls set_color(r, g, b)
CallSetColor(r, g, b) ==
  /\ op' = "set_color"
  /\ input' = <<r, g, b>>
  /\ set_color(r, g, b)

Init ==
  /\ rgb = <<0, 0, 0>>
  /\ frame = <<>>
  /\ ctrl = "Unconstructed" /\ spi = NoSpi /\ given = NoSpi /\ returned = NoSpi
  /\ IdleCall

Next ==
  \/ /\ \E t \in Devices : new(t)
     /\ UNCHANGED calls
  \/ /\ release
     /\ UNCHANGED calls
  \/ /\ \E cs \in Chains : CallSetColors(cs)
     /\ UNCHANGED calls
  \/ /\ \E c \in Palette : CallSetColor(c[1], c[2], c[3])
     /\ UNCHANGED calls
  \/ /\ WriteStart
     /\ UNCHANGED calls
  \/ /\ WriteFrame
     /\ UNCHANGED calls
  \/ /\ WriteEnd
     /\ UNCHANGED calls
  \/ /\ OtherBusUser
     /\ UNCHANGED calls

Spec == Init /\ [][Next]_vars

-----------------------------------------------------------------------------
(* What the claims about one call are stated with.                         *)

Zero4 == <<0, 0, 0, 0>>

\* the bytes of a sequence of writes, concatenated in the order written
RECURSIVE Flatten(_)
Flatten(ws) == IF ws = <<>> THEN <<>> ELSE Head(ws).bytes \o Flatten(Tail(ws))

\* the 4-byte words of the transaction for the colour sequence cs
Transaction(cs) ==
  <<Zero4>> \o [i \in 1 .. Len(cs) |-> color_to_array(cs[i][1], cs[i][2], cs[i][3])]
            \o <<Zero4>>

RECURSIVE Concat(_)
Concat(words) == IF words = <<>> THEN <<>> ELSE Head(words) \o Concat(Tail(words))

Accepted(ws) == \A i \in DOMAIN ws : ws[i].res = "Ok"

\* a call has returned, and bus holds what it wrote
Finished == pc = "idle" /\ ret # "none"

\* C1: when the transport accepts every write of a set_colors call over N
\* triples, the call returns success and the bytes written, in order, are 4
\* zero bytes, the device frame of each triple in the caller's order and 4
\* zero bytes: 4 * (N + 2) bytes and nothing else.
C1_Transaction ==
  (Finished /\ Accepted(Own(bus))) =>
    /\ ret = "Ok"
    /\ Flatten(Own(bus)) = Concat(Transaction(colors))
    /\ Len(Flatten(Own(bus))) = 4 * (Len(colors) + 2)

C1_Witness ==
  /\ Finished
  /\ op = "set_colors"
  /\ input = <<<<0, 255, 200>>, <<255, 50, 20>>>>
  /\ ret = "Ok"
  /\ Flatten(Own(bus)) = <<0, 0, 0, 0, 195, 200, 255, 0, 252, 20, 50, 255, 0, 0, 0, 0>>

\* C4: when the transport fails on the K-th write of a call, the call returns
\* that error, the writes up to the K-th are the first K words of the
\* transaction, and no write follows the K-th: a running call has met no
\* failure, and a finished one has at most one, in its last write.
C4_FailFast ==
  LET ws == Own(bus)
      K == Len(ws)
  IN  /\ pc # "idle" => Accepted(ws)
      /\ Finished =>
           /\ \A i \in DOMAIN ws : ws[i].res # "Ok" => i = K /\ ret = ws[i].res
           /\ ret \in Errors =>
                /\ K \in 1 .. Len(colors) + 2
                /\ ws[K].res = ret
                /\ \A i \in 1 .. K : ws[i].bytes = Transaction(colors)[i]

C4_Witness ==
  /\ Finished
  /\ ret = "E2"
  /\ Len(colors) = 3
  /\ Len(Own(bus)) = 3
  /\ Own(bus)[3].res = "E2"

\* C5 as stated: no activity of another bus user lies between the start
\* marker and the end marker of one set_colors call.
C5_SingleLogicalWrite ==
  \A i, j, k \in DOMAIN bus :
    (i < j /\ j < k /\ bus[i].by = "p9813" /\ bus[k].by = "p9813")
      => bus[j].by = "p9813"

\* C5 amended: set_colors issues the transaction as N + 2 separate writes,
\* each one 4-byte frame and a bus transaction of its own; in transaction
\* order, with the bus free for another user between two of them.
C5_SeparateWrites ==
  LET ws == Own(bus)
  IN  /\ \A i \in DOMAIN ws : Len(ws[i].bytes) = 4
      /\ (Finished /\ ret = "Ok") =>
           /\ Len(ws) = Len(colors) + 2
           /\ \A i \in DOMAIN ws : ws[i].bytes = Transaction(colors)[i]

C5_Witness ==
  /\ Finished
  /\ ret = "Ok"
  /\ Len(colors) = 2
  /\ Len(bus) = 5
  /\ bus[3].by = "other"

\* C6: set_colors with an empty colour sequence on an accepting transport
\* returns success and transmits exactly 8 zero bytes, the start marker and
\* the end marker, and no device frame.
C6_EmptySequence ==
  (Finished /\ op = "set_colors" /\ input = <<>> /\ Accepted(Own(bus))) =>
    /\ ret = "Ok"
    /\ Len(Own(bus)) = 2
    /\ Flatten(Own(bus)) = <<0, 0, 0, 0, 0, 0, 0, 0>>

C6_Witness ==
  /\ Finished
  /\ op = "set_colors"
  /\ input = <<>>
  /\ ret = "Ok"
  /\ Len(Own(bus)) = 2

\* C9: new yields Holding and writes nothing; the only step out of Holding
\* is to Released, writes nothing and hands back the transport given to new;
\* nothing leaves Released, and no write reaches the transport through a
\* controller that is not Holding.
C9_Lifecycle ==
  [][ /\ ctrl = "Unconstructed" =>
           /\ ctrl' \in {"Unconstructed", "Holding"}
           /\ Own(bus') = Own(bus)
           /\ ctrl' = "Holding" => (spi' = given' /\ given' \in Devices /\ pc' = "idle")
      /\ (ctrl = "Holding" /\ ctrl' # "Holding") =>
           /\ ctrl' = "Released"
           /\ Own(bus') = Own(bus)
           /\ returned' = given
           /\ returned' = spi
      /\ ctrl = "Released" =>
           /\ ctrl' = "Released"
           /\ Own(bus') = Own(bus)
           /\ pc' = "idle"
           /\ returned' = returned
    ]_vars

C9_Witness ==
  /\ ctrl = "Released"
  /\ returned = "spi1"
  /\ given = "spi1"
  /\ ret = "Ok"
  /\ Len(Own(bus)) = 3

-----------------------------------------------------------------------------
(* CallsSpec: a constructed controller whose caller sends a transaction    *)
(* and repeats it, through set_colors or (one triple) set_color, up to     *)
(* MaxCalls times; every finished call is recorded with what it wrote.     *)

\* the colour sequence a recorded call was asked to send
Meant(c) == IF c.op = "set_color" THEN <<c.input>> ELSE c.input

\* the caller's first call is free, the later ones repeat its colours
Repeats(cs) == IF calls = <<>> THEN TRUE ELSE cs = Meant(calls[1])

\* the record of a call, appended when set_colors returns
Record ==
  calls' = IF pc # "idle" /\ pc' = "idle"
             THEN Append(calls, [op |-> op, input |-> input,
                                 writes |-> Own(bus'), ret |-> ret'])
             ELSE calls

CallsInit ==
  /\ rgb = <<0, 0, 0>>
  /\ frame = <<>>
  /\ ctrl = "Holding" /\ spi = "spi0" /\ given = "spi0" /\ returned = NoSpi
  /\ IdleCall

CallsNext ==
  \/ /\ Len(calls) < MaxCalls
     /\ \E cs \in Chains :
          /\ Len(cs) <= MaxRepeatChain
          /\ Repeats(cs)
          /\ CallSetColors(cs)
     /\ UNCHANGED calls
  \/ /\ Len(calls) < MaxCalls
     /\ \E c \in Palette :
          /\ Repeats(<<c>>)
          /\ CallSetColor(c[1], c[2], c[3])
     /\ UNCHANGED calls
  \/ /\ WriteStart
     /\ Record
  \/ /\ WriteFrame
     /\ Record
  \/ /\ WriteEnd
     /\ Record

CallsSpec == CallsInit /\ [][CallsNext]_vars

\* where the transport failed in a recorded call, and with what
Failure(c) ==
  IF Accepted(c.writes) THEN <<0, "Ok">>
  ELSE LET k == CHOOSE k \in DOMAIN c.writes :
                  /\ c.writes[k].res # "Ok"
                  /\ \A m \in 1 .. k - 1 : c.writes[m].res = "Ok"
       IN  <<k, c.writes[k].res>>

Words(c) == [i \in DOMAIN c.writes |-> c.writes[i].bytes]

\* C7: for all r, g, b and every transport behaviour, set_color(r, g, b)
\* issues the same writes in the same order and returns the same result as
\* set_colors([(r, g, b)]).
C7_SetColorEquiv ==
  \A i, j \in DOMAIN calls :
    ( /\ calls[i].op = "set_color"
      /\ calls[j].op = "set_colors"
      /\ calls[j].input = <<calls[i].input>>
      /\ Failure(calls[i]) = Failure(calls[j]) )
      => /\ calls[i].writes = calls[j].writes
         /\ calls[i].ret = calls[j].ret

C7_Witness ==
  \E i, j \in DOMAIN calls :
    /\ calls[i].op = "set_color"
    /\ calls[i].input = <<255, 50, 20>>
    /\ calls[j].op = "set_colors"
    /\ calls[j].input = <<<<255, 50, 20>>>>
    /\ Failure(calls[i]) = <<3, "E1">>
    /\ Failure(calls[j]) = <<3, "E1">>

\* C8: what a set_colors call transmits depends on its argument alone: after
\* any earlier calls, successful or failed, two set_colors calls with the
\* same input on an accepting transport send the same bytes, and the retry
\* of a failed call sends the whole transaction again from the start marker.
C8_Stateless ==
  \A i, j \in DOMAIN calls :
    ( /\ i < j
      /\ calls[j].op = "set_colors"
      /\ Meant(calls[i]) = calls[j].input
      /\ Accepted(calls[j].writes) )
      => /\ Len(calls[j].writes) = Len(calls[j].input) + 2
         /\ calls[j].writes[1].bytes = Zero4
         /\ \A k \in DOMAIN calls[i].writes :
              calls[i].writes[k].bytes = calls[j].writes[k].bytes
         /\ Accepted(calls[i].writes) =>
              Flatten(calls[i].writes) = Flatten(calls[j].writes)

C8_Witness ==
  /\ Len(calls) = 3
  /\ \A i \in 1 .. 3 : calls[i].op = "set_colors" /\ Len(calls[i].input) = 2
  /\ calls[1].ret = "Ok"
  /\ calls[2].ret = "E1"
  /\ Len(calls[2].writes) = 2
  /\ calls[3].ret = "Ok"

\* the 4-byte words of the first k recorded calls, in the order written
RECURSIVE Stream(_)
Stream(k) == IF k = 0 THEN <<>> ELSE Stream(k - 1) \o Words(calls[k])

\* C10: no device frame can be taken for a marker: every frame's first byte
\* is at least 0xC0, so in the byte stream of successful calls every aligned
\* all-zero word is a marker, and each call contributes exactly two, its
\* first and its last word.
C10_NoFrameIsMarker ==
  /\ \A i \in DOMAIN calls :
       calls[i].ret = "Ok" =>
         LET w == Words(calls[i])
         IN  /\ Len(w) >= 2
             /\ \A p \in DOMAIN w : Len(w[p]) = 4
             /\ \A p \in DOMAIN w : w[p] = Zero4 <=> p \in {1, Len(w)}
             /\ \A p \in 2 .. Len(w) - 1 : w[p][1] >= 192
  /\ (\A i \in DOMAIN calls : calls[i].ret = "Ok") =>
       LET st == Stream(Len(calls))
       IN  Cardinality({p \in DOMAIN st : st[p] = Zero4}) = 2 * Len(calls)

C10_Witness ==
  /\ Len(calls) = 3
  /\ \A i \in DOMAIN calls : calls[i].ret = "Ok"
  /\ Stream(3)[2] = <<255, 0, 0, 0>>
  /\ Len(Stream(3)) = 9

====
